---- MODULE Spec2Model ----
(***************************************************************************)
(* A model of gsolve: the Figure container (figure.rs), constraint         *)
(* targeting (constraints.rs), the breadth-first ordering (order.rs), the  *)
(* locus algebra (math/geo.rs) and the brute-force solver (solve.rs).      *)
(*                                                                         *)
(* PIDs and CIDs are the dense 0-based indices of the source; TLA+         *)
(* sequences are 1-based, so the entry of PID p is points[p + 1].          *)
(*                                                                         *)
(* Numbers are modelled on the integer lattice: every figure handed to the *)
(* solver is chosen so that each intermediate f64 value is an integer, and *)
(* an operator that would leave the lattice (an inexact division or square *)
(* root) is undefined there.  Angles are counted in quarter turns, so that *)
(* sin and cos are exact.                                                  *)
(***************************************************************************)
EXTENDS Integers, Sequences, FiniteSets, TLC

VARIABLES
    points,       \* Figure.points: PID -> [CID]            (figure.rs:11)
    constraints,  \* Figure.constraints: [(Constraint,[PID])] (figure.rs:10)
    pc,           \* position of the ordering run
    debug,        \* TRUE: debug assertions compiled in (debug profile)
    forest,       \* compute_forest: accepted trees          (order.rs:72)
    root,         \* compute_forest: loop variable root      (order.rs:78)
    orbiters,     \* compute_forest: orbiters not yet tried  (order.rs:89)
    rootStatuses, \* compute_forest: statuses after the root expansion
    order,        \* compute_forest: queue/order of the tree being grown
    known,        \* compute_forest: `points`, the known set of the tree
    statuses,     \* compute_forest: statuses of the tree being grown
    i,            \* compute_forest: index into order        (order.rs:108)
    result,       \* order_bfs: the returned order, or a panic marker
    tIn,          \* targeting run: (constraint, points, known set)
    tOut,         \* targeting run: the returned (target, op) list
    sOrder,       \* solve_brute: the order being solved
    positions,    \* solve_brute: positions vector           (solve.rs:49)
    stack,        \* iter_brute: the recursion stack, innermost frame last
    sState        \* solve_brute: "call", "loop", or the outcome "Ok", "Err", "panic"

figVars == <<points, constraints>>
ordVars == <<pc, debug, forest, root, orbiters, rootStatuses, order, known, statuses, i, result>>
tgtVars == <<tIn, tOut>>
slvVars == <<sOrder, positions, stack, sState>>
vars == <<figVars, ordVars, tgtVars, slvVars>>

(***************************************************************************)
(* Bounds of the model.                                                    *)
(***************************************************************************)
MaxPoints == 4
MaxCons == 3
NumPids == 3
MaxTuple == 6
MaxPol == 2
ChirPids == 3
MaxTriples == 3
LivePoints == 3
LiveCons == 4
MaxLoci == 2
MaxCoord == 2

Min(a, b) == IF a < b THEN a ELSE b
Max(a, b) == IF a < b THEN b ELSE a
Abs(a) == IF a < 0 THEN -a ELSE a
Range(s) == {s[k] : k \in DOMAIN s}

RECURSIVE SeqsUpTo(_, _)
SeqsUpTo(S, n) ==
    IF n = 0 THEN {<<>>}
    ELSE LET shorter == SeqsUpTo(S, n - 1)
         IN  shorter \cup {Append(s, x) : s \in {t \in shorter : Len(t) = n - 1}, x \in S}

(***************************************************************************)
(* constraints.rs: Polarity, Constraint, TargetedConstraint                *)
(***************************************************************************)
Polarity == {"Pro", "Anti"}

\* Constraint::Element(m, Distance | Angle), Parallel, Perpendicular,
\* Collinear, Chirality(pols).  m is a length for Distance and a number of
\* quarter turns for Angle.
Constraint(kind, m, pols) == [kind |-> kind, m |-> m, pols |-> pols]

\* TargetedConstraint::Element(m, Distance(center))
TDistance(m, center) == [t |-> "Distance", m |-> m, pol |-> "Pro", ps |-> <<center>>]
\* TargetedConstraint::Element(m, Vertex(p0, p1))
TVertex(m, p0, p1) == [t |-> "Vertex", m |-> m, pol |-> "Pro", ps |-> <<p0, p1>>]
\* TargetedConstraint::Element(m, Orient(base_origin, base_other, origin))
TOrient(m, p0, p1, p2) == [t |-> "Orient", m |-> m, pol |-> "Pro", ps |-> <<p0, p1, p2>>]
\* TargetedConstraint::Chirality(pol, p0, p1, p2, p3, p4)
TChirality(pol, p0, p1, p2, p3, p4) ==
    [t |-> "Chirality", m |-> 0, pol |-> pol, ps |-> <<p0, p1, p2, p3, p4>>]

discretizing(op) == op.t # "Chirality"

Target(pid, op) == [target |-> pid, op |-> op]

(***************************************************************************)
(* constraints.rs: mod targeting.  K is the knowledge iterator as a        *)
(* sequence of booleans; next_tuple() on an exhausted iterator is None,    *)
(* and None becomes the empty list in Constraint::targets.                 *)
(***************************************************************************)
distance_swapped(r, pts, K) ==
    IF Len(K) < 2 THEN <<>>
    ELSE IF ~K[1] /\ K[2] THEN <<Target(pts[2], TDistance(r, pts[1]))>>
    ELSE IF K[1] /\ ~K[2] THEN <<Target(pts[1], TDistance(r, pts[2]))>>
    ELSE <<>>

distance(r, pts, K) ==
    IF Len(K) < 2 THEN <<>>
    ELSE IF ~K[1] /\ K[2] THEN <<Target(pts[1], TDistance(r, pts[2]))>>
    ELSE IF K[1] /\ ~K[2] THEN <<Target(pts[2], TDistance(r, pts[1]))>>
    ELSE <<>>

angle(m, pts, K) ==
    IF Len(K) < 3 THEN <<>>
    ELSE IF ~K[1] /\ K[2] /\ K[3] THEN <<Target(pts[1], TOrient(m, pts[2], pts[3], pts[2]))>>
    ELSE IF K[1] /\ K[2] /\ ~K[3] THEN <<Target(pts[3], TOrient(m, pts[2], pts[1], pts[2]))>>
    ELSE IF K[1] /\ ~K[2] /\ K[3] THEN <<Target(pts[2], TVertex(m, pts[1], pts[3]))>>
    ELSE <<>>

\* The first loop of parallel/perpendicular over points.chunks_exact(2):
\* known_line is <<>> for None, else <<idx, line[0], line[1]>>.
RECURSIVE line_scan(_, _, _, _, _)
line_scan(pts, K, n, known_line, tg) ==
    IF n >= Len(pts) \div 2 THEN [known_line |-> known_line, targets |-> tg]
    ELSE LET l0 == pts[2 * n + 1]
             l1 == pts[2 * n + 2]
             k0 == K[2 * n + 1]
             k1 == K[2 * n + 2]
         IN  IF k0 /\ ~k1
             THEN line_scan(pts, K, n + 1, known_line,
                            Append(tg, [idx |-> n, known |-> l0, unknown |-> l1]))
             ELSE IF ~k0 /\ k1
             THEN line_scan(pts, K, n + 1, known_line,
                            Append(tg, [idx |-> n, known |-> l1, unknown |-> l0]))
             ELSE IF k0 /\ k1 /\ known_line = <<>>
             THEN line_scan(pts, K, n + 1, <<n, l0, l1>>, tg)
             ELSE line_scan(pts, K, n + 1, known_line, tg)

\* The Orient op with the known line always taken from its first point.
line_orient_fixed_base(m, kl, tgt) == TOrient(m, kl[2], kl[3], tgt.known)

\* The Orient op both functions build for one target.
line_orient(m, kl, tgt) ==
    IF tgt.known = kl[2]
    THEN TOrient(m, kl[3], kl[2], tgt.known)
    ELSE TOrient(m, kl[2], kl[3], tgt.known)

parallel(pts, K) ==
    LET s == line_scan(pts, K, 0, <<>>, <<>>)
    IN  IF s.known_line = <<>> THEN <<>>
        ELSE [k \in 1..Len(s.targets) |->
                Target(s.targets[k].unknown, line_orient(0, s.known_line, s.targets[k]))]

perpendicular(pts, K) ==
    LET s == line_scan(pts, K, 0, <<>>, <<>>)
    IN  IF s.known_line = <<>> THEN <<>>
        ELSE [k \in 1..Len(s.targets) |->
                Target(s.targets[k].unknown,
                       line_orient(IF s.targets[k].idx % 2 = s.known_line[1] % 2 THEN 0 ELSE 1,
                                   s.known_line, s.targets[k]))]

collinear(pts, K) ==
    LET n    == Min(Len(pts), Len(K))
        IsK(k) == K[k]
        NotK(k) == ~K[k]
        idx  == [k \in 1..n |-> k]
        line == [k \in 1..Len(SelectSeq(idx, IsK)) |-> pts[SelectSeq(idx, IsK)[k]]]
        unknown == [k \in 1..Len(SelectSeq(idx, NotK)) |-> pts[SelectSeq(idx, NotK)[k]]]
    IN  IF Len(line) < 2 THEN <<>>
        ELSE [k \in 1..Len(unknown) |-> Target(unknown[k], TOrient(0, line[1], line[2], line[2]))]

\* The first loop of chirality over points.chunks_exact(3).zip(polarities):
\* known_angle is <<>> for None, else <<pol, angle[0], angle[1], angle[2]>>.
RECURSIVE angle_scan(_, _, _, _, _, _)
angle_scan(pols, pts, K, n, known_angle, tg) ==
    IF n >= Min(Len(pts) \div 3, Len(pols)) THEN [known_angle |-> known_angle, targets |-> tg]
    ELSE LET a0 == pts[3 * n + 1]
             a1 == pts[3 * n + 2]
             a2 == pts[3 * n + 3]
             k0 == K[3 * n + 1]
             k1 == K[3 * n + 2]
             k2 == K[3 * n + 3]
             pol == pols[n + 1]
         IN  IF k0 /\ k1 /\ ~k2
             THEN angle_scan(pols, pts, K, n + 1, known_angle,
                             Append(tg, [pol |-> pol, known |-> <<a0, a1>>, unknown |-> a2]))
             ELSE IF k0 /\ ~k1 /\ k2
             THEN angle_scan(pols, pts, K, n + 1, known_angle,
                             Append(tg, [pol |-> pol, known |-> <<a2, a0>>, unknown |-> a1]))
             ELSE IF ~k0 /\ k1 /\ k2
             THEN angle_scan(pols, pts, K, n + 1, known_angle,
                             Append(tg, [pol |-> pol, known |-> <<a1, a2>>, unknown |-> a0]))
             ELSE IF k0 /\ k1 /\ k2
             THEN angle_scan(pols, pts, K, n + 1, <<pol, a0, a1, a2>>, tg)
             ELSE angle_scan(pols, pts, K, n + 1, known_angle, tg)

chirality(pols, pts, K) ==
    LET s == angle_scan(pols, pts, K, 0, <<>>, <<>>)
        ka == s.known_angle
    IN  IF ka = <<>> THEN <<>>
        ELSE [k \in 1..Len(s.targets) |->
                Target(s.targets[k].unknown,
                       TChirality(IF s.targets[k].pol = ka[1] THEN "Pro" ELSE "Anti",
                                  ka[2], ka[3], ka[4],
                                  s.targets[k].known[1], s.targets[k].known[2]))]

\* Constraint::targets
constraint_targets(c, pts, K) ==
    CASE c.kind = "Distance"      -> distance(c.m, pts, K)
      [] c.kind = "Angle"         -> angle(c.m, pts, K)
      [] c.kind = "Parallel"      -> parallel(pts, K)
      [] c.kind = "Perpendicular" -> perpendicular(pts, K)
      [] c.kind = "Collinear"     -> collinear(pts, K)
      [] c.kind = "Chirality"     -> chirality(c.pols, pts, K)

\* order.rs: the knowledge mask c_points.iter().map(|p| known.contains(p))
knowledge(pts, kn) == [k \in 1..Len(pts) |-> pts[k] \in kn]

\* order.rs: targets(figure, cid, known) on the declaration (constraint, c_points)
targets_of(decl, kn) == constraint_targets(decl.c, decl.pts, knowledge(decl.pts, kn))

(***************************************************************************)
(* math/quantity.rs, math/vector.rs on the integer lattice.  ExactDiv and  *)
(* Sqrt are defined only where the f64 result is the integer they return.  *)
(***************************************************************************)
\* EPSILON = 1e-9: between integers, |a - b| <= 1e-9 iff |a - b| <= 0.
EPSILON == 0
\* Number::NEG_INFINITY: below every parameter the lattice figures reach.
NEG_INFINITY == -1000000

about_zero(x) == Abs(x) <= EPSILON
about_eq(x, y) == Abs(y - x) <= EPSILON

ExactDiv(a, b) == CHOOSE q \in -Abs(a)..Abs(a) : b # 0 /\ q * b = a
Sqrt(n) == CHOOSE k \in 0..n : k * k = n
\* f64::signum: 1.0 for +0.0 and above, -1.0 below.
signum(x) == IF x >= 0 THEN 1 ELSE -1
\* cos and sin of q quarter turns, q in -1..1.
Cos(q) == IF q = 0 THEN 1 ELSE 0
Sin(q) == q

Vec(x, y) == [x |-> x, y |-> y]
ZERO == Vec(0, 0)
POSX == Vec(1, 0)
VAdd(a, b) == Vec(a.x + b.x, a.y + b.y)
VSub(a, b) == Vec(a.x - b.x, a.y - b.y)
VMul(a, k) == Vec(a.x * k, a.y * k)
VDiv(a, k) == Vec(ExactDiv(a.x, k), ExactDiv(a.y, k))
VNeg(a) == Vec(-a.x, -a.y)
dot(a, b) == a.x * b.x + a.y * b.y
cross(a, b) == a.x * b.y - a.y * b.x
perp(a) == Vec(-a.y, a.x)
\* mag().powi(2): x*x + y*y, without the square root in between.
mag_sq(a) == a.x * a.x + a.y * a.y
mag(a) == Sqrt(mag_sq(a))
vdist(a, b) == mag(VSub(b, a))
unit(a) == VDiv(a, mag(a))
from_angle(q) == Vec(Cos(q), Sin(q))
rot(a, q) ==
    LET v == from_angle(q)
    IN  Vec(a.x * v.x - a.y * v.y, a.x * v.y + a.y * v.x)

(***************************************************************************)
(* math/geo.rs: Geo, intersect, meet, dist, choose.  A panic               *)
(* (unimplemented!) is the locus Panic, which meet propagates.             *)
(***************************************************************************)
Zero(p) == [g |-> "Zero", p |-> p]
Linear(o, v, l) == [g |-> "Linear", o |-> o, v |-> v, l |-> l]
Circle(c, r) == [g |-> "Circle", c |-> c, r |-> r]
All == [g |-> "All"]
Half(o, n) == [g |-> "Half", o |-> o, n |-> n]
Panic == [g |-> "Panic"]

along_linear(o, v, t) == VAdd(o, VMul(v, t))

closest_linear(o, v, l, p) == along_linear(o, v, Max(dot(VSub(p, o), v), l))

dist(p, g) ==
    CASE g.g = "Zero"   -> vdist(p, g.p)
      [] g.g = "Linear" -> vdist(p, closest_linear(g.o, g.v, g.l, p))
      [] g.g = "Circle" -> vdist(p, g.c) - g.r
      [] g.g = "All"    -> 0
      [] g.g = "Half"   -> Max(dot(VSub(p, g.o), g.n), 0)

\* (g, Geo::Zero(p)) | (Geo::Zero(p), g)
intersect_point(p, g) == IF about_zero(dist(p, g)) THEN <<Zero(p)>> ELSE <<>>

intersect_lines(g0, g1) ==
    LET b == VSub(g1.o, g0.o)
        a == cross(Vec(g0.v.x, -g1.v.x), Vec(g0.v.y, -g1.v.y))
        t0 == ExactDiv(cross(Vec(b.x, -g1.v.x), Vec(b.y, -g1.v.y)), a)
        t1 == ExactDiv(cross(Vec(g0.v.x, b.x), Vec(g0.v.y, b.y)), a)
    IN  IF a = 0 THEN <<>>
        ELSE IF t0 < g0.l \/ t1 < g1.l THEN <<>>
        ELSE <<Zero(along_linear(g0.o, g0.v, t0))>>

intersect_circle_line(ci, li) ==
    LET o_c == VSub(li.o, ci.c)
        v_o_c == dot(li.v, o_c)
        delta == v_o_c * v_o_c - (mag_sq(o_c) - ci.r * ci.r)
        ts == IF delta < 0 THEN <<>>
              ELSE IF about_zero(delta) THEN <<-v_o_c>>
              ELSE <<-v_o_c + Sqrt(delta), -v_o_c - Sqrt(delta)>>
        Keep(t) == t >= li.l
        kept == SelectSeq(ts, Keep)
    IN  [k \in 1..Len(kept) |-> Zero(along_linear(li.o, li.v, kept[k]))]

intersect_circles(g0, g1) ==
    LET d == mag(VSub(g1.c, g0.c))
        dir == VDiv(VSub(g1.c, g0.c), d)
        a == ExactDiv(g0.r * g0.r - g1.r * g1.r + d * d, 2 * d)
        c == VAdd(g0.c, VMul(dir, a))
        h == Sqrt(g0.r * g0.r - a * a)
        h_v == VMul(perp(dir), h)
    IN  IF d < Abs(g0.r - g1.r) THEN <<>>
        ELSE IF d > g0.r + g1.r THEN <<>>
        ELSE IF about_eq(d, g0.r + g1.r) THEN <<Zero(c)>>
        ELSE <<Zero(VAdd(c, h_v)), Zero(VSub(c, h_v))>>

\* (Geo::Two(g0), g) | (g, Geo::Two(g0)) with g0 the 2D locus bound first.
intersect_two(g0, g) == IF g0.g = "All" THEN <<g>> ELSE <<Panic>>

IsOne(g) == g.g \in {"Linear", "Circle"}
IsTwo(g) == g.g \in {"All", "Half"}

intersect(g0, g1) ==
    IF g1.g = "Zero" THEN intersect_point(g1.p, g0)
    ELSE IF g0.g = "Zero" THEN intersect_point(g0.p, g1)
    ELSE IF IsOne(g0) /\ IsOne(g1)
    THEN IF g0.g = "Linear" /\ g1.g = "Linear" THEN intersect_lines(g0, g1)
         ELSE IF g0.g = "Circle" /\ g1.g = "Linear" THEN intersect_circle_line(g0, g1)
         ELSE IF g0.g = "Linear" /\ g1.g = "Circle" THEN intersect_circle_line(g1, g0)
         ELSE intersect_circles(g0, g1)
    ELSE IF IsTwo(g0) THEN intersect_two(g0, g1)
    ELSE intersect_two(g1, g0)

RECURSIVE concat(_)
concat(ss) == IF ss = <<>> THEN <<>> ELSE Head(ss) \o concat(Tail(ss))

\* g0.iter().cartesian_product(g1).map(intersect).concat(): g0 is the outer loop.
meet(A, B) ==
    LET n == Len(B)
        parts == [k \in 1..(Len(A) * n) |->
                    intersect(A[((k - 1) \div n) + 1], B[((k - 1) % n) + 1])]
        flat == concat(parts)
    IN  IF Panic \in Range(A) THEN <<Panic>>
        ELSE IF Panic \in Range(flat) THEN <<Panic>>
        ELSE flat

choose(g) ==
    CASE g.g = "Zero"   -> g.p
      [] g.g = "Linear" -> along_linear(g.o, g.v, Max(g.l, 0) + 1)
      [] g.g = "Circle" -> VAdd(VMul(POSX, g.r), g.c)
      [] g.g = "All"    -> ZERO
      [] g.g = "Half"   -> VAdd(g.o, g.n)

(***************************************************************************)
(* constraints.rs: TargetedConstraint::geo; pos is indexed by PID + 1.     *)
(***************************************************************************)
geo(op, pos) ==
    CASE op.t = "Distance" -> <<Circle(pos[op.ps[1] + 1], op.m)>>
      [] op.t = "Vertex" ->
            LET p0 == pos[op.ps[1] + 1]
                p1 == pos[op.ps[2] + 1]
                d == mag(VSub(p1, p0))
                v == VDiv(VSub(p1, p0), d)
                r == ExactDiv(ExactDiv(d, 2), Sin(op.m))
                mid == VDiv(VAdd(p0, p1), 2)
                a == r * Cos(op.m)
                v_a == VMul(perp(v), a)
            IN  IF about_zero(a) THEN <<Circle(mid, r)>>
                ELSE <<Circle(VAdd(mid, v_a), r), Circle(VSub(mid, v_a), r)>>
      [] op.t = "Orient" ->
            LET base == unit(VSub(pos[op.ps[2] + 1], pos[op.ps[1] + 1]))
                l == IF op.ps[1] = op.ps[3] THEN 0 ELSE NEG_INFINITY
            IN  <<Linear(pos[op.ps[3] + 1], rot(base, op.m), l),
                  Linear(pos[op.ps[3] + 1], rot(base, -op.m), l)>>
      [] op.t = "Chirality" ->
            LET p0 == pos[op.ps[1] + 1]
                p1 == pos[op.ps[2] + 1]
                p2 == pos[op.ps[3] + 1]
                p3 == pos[op.ps[4] + 1]
                p4 == pos[op.ps[5] + 1]
                measured == signum(cross(VSub(p1, p0), VSub(p2, p1)))
                n0 == VMul(perp(unit(VSub(p4, p3))), measured)
            IN  <<Half(p4, IF op.pol = "Anti" THEN VNeg(n0) ELSE n0)>>

(***************************************************************************)
(* figure.rs: Figure                                                       *)
(***************************************************************************)
Decl(c, pts) == [c |-> c, pts |-> pts]

\* The declarations a caller adds to a figure of n points: distances along
\* the cycle 0-1-..-(n-1)-0, one declaration of every other variant and, from
\* four points on, a collinearity that names its last point twice.
Menu(n) ==
    IF n < 2 THEN {}
    ELSE {Decl(Constraint("Distance", 1, <<>>), <<p, (p + 1) % n>>) : p \in 0..(n - 1)}
         \cup (IF n < 3 THEN {}
               ELSE {Decl(Constraint("Perpendicular", 0, <<>>), <<0, 1, 1, 2>>),
                     Decl(Constraint("Angle", 1, <<>>), <<0, 1, 2>>),
                     Decl(Constraint("Collinear", 0, <<>>), <<0, 1, 2>>),
                     Decl(Constraint("Parallel", 0, <<>>), <<0, 1, 2, 3 % n>>),
                     Decl(Constraint("Chirality", 0, <<"Pro", "Anti">>),
                          <<0, 1, 2, 0, 1, 3 % n>>)})
         \cup (IF n < 4 THEN {}
               ELSE {Decl(Constraint("Collinear", 0, <<>>), <<0, 1, 2, 3, 3>>)})

\* Figure::new_point
new_point ==
    /\ pc = "build"
    /\ Len(points) < MaxPoints
    /\ points' = Append(points, <<>>)
    /\ UNCHANGED <<constraints, ordVars, tgtVars, slvVars>>

\* The loop of Figure::add_constraint over the tuple: push cid to every
\* mentioned point's list, once per mention.
RECURSIVE push_cid(_, _, _, _)
push_cid(pl, pts, k, cid) ==
    IF k > Len(pts) THEN pl
    ELSE push_cid([pl EXCEPT ![pts[k] + 1] = Append(@, cid)], pts, k + 1, cid)

\* Figure::add_constraint; the tuple mentions existing points only (the
\* unwrap of get_mut panics otherwise).
add_constraint(d) ==
    /\ pc = "build"
    /\ Len(constraints) < MaxCons
    /\ \A k \in DOMAIN d.pts : d.pts[k] < Len(points)
    /\ points' = push_cid(points, d.pts, 1, Len(constraints))
    /\ constraints' = Append(constraints, d)
    /\ UNCHANGED <<ordVars, tgtVars, slvVars>>

\* The mappings map_ids is called with: the bijections on the n PIDs.
Bijections(n) ==
    {mp \in [0..(n - 1) -> 0..(n - 1)] : \A a, b \in 0..(n - 1) : mp[a] = mp[b] => a = b}

\* Figure::map_ids.  The tuples are rewritten first.  ordered_points is
\* allocated with the length self.points has after take, and writing
\* ordered_points[i] beyond that length panics.
map_ids(mapping) ==
    /\ pc = "build"
    /\ constraints' = [c \in DOMAIN constraints |->
                          [constraints[c] EXCEPT
                              !.pts = [k \in DOMAIN constraints[c].pts |->
                                          mapping[constraints[c].pts[k]]]]]
    /\ LET taken == points
           emptied == <<>>
           ordered_points == [k \in 1..Len(emptied) |-> <<>>]
       IN  IF \E k \in DOMAIN taken : k \notin DOMAIN ordered_points
           THEN /\ points' = emptied
                /\ result' = [status |-> "panic", order |-> <<>>]
           ELSE /\ points' = [k \in DOMAIN ordered_points |-> taken[k]]
                /\ result' = [status |-> "mapped", order |-> <<>>]
    /\ pc' = "mapped"
    /\ UNCHANGED <<debug, forest, root, orbiters, rootStatuses, order, known, statuses, i,
                   tgtVars, slvVars>>

(***************************************************************************)
(* order.rs: PointStatus, expand_tree                                      *)
(***************************************************************************)
DefaultStatus == [cids |-> {}, support |-> <<>>, disamb |-> <<>>]

\* PointStatus::add_constraint without the test of cids.
status_add_constraint_nodedup(status, cid, op) ==
    IF discretizing(op)
    THEN [status |-> [status EXCEPT !.cids = @ \cup {cid}, !.support = Append(@, op)],
          ret |-> TRUE]
    ELSE [status |-> [status EXCEPT !.cids = @ \cup {cid}, !.disamb = Append(@, op)],
          ret |-> FALSE]

\* PointStatus::add_constraint: the updated status and the returned bool.
status_add_constraint(status, cid, op) ==
    IF cid \in status.cids THEN [status |-> status, ret |-> FALSE]
    ELSE IF discretizing(op)
    THEN [status |-> [status EXCEPT !.cids = @ \cup {cid}, !.support = Append(@, op)],
          ret |-> TRUE]
    ELSE [status |-> [status EXCEPT !.cids = @ \cup {cid}, !.disamb = Append(@, op)],
          ret |-> FALSE]

\* PointStatus::discretized with >= in place of ==.
discretized_at_least(status) == Len(status.support) >= 2

\* PointStatus::discretized
discretized(status) == Len(status.support) = 2

\* expand_tree, inner loop: the (target, constraint) pairs of one cid.
\* acc is [st |-> statuses, np |-> new_points].
RECURSIVE expand_targets(_, _, _, _)
expand_targets(cid, tg, k, acc) ==
    IF k > Len(tg) THEN acc
    ELSE LET target == tg[k].target
             st0 == IF target \in DOMAIN acc.st THEN acc.st
                    ELSE [p \in DOMAIN acc.st \cup {target} |->
                            IF p = target THEN DefaultStatus ELSE acc.st[p]]
             added == status_add_constraint(st0[target], cid, tg[k].op)
             st1 == [st0 EXCEPT ![target] = added.status]
         IN  expand_targets(cid, tg, k + 1,
                 [st |-> st1,
                  np |-> IF added.ret /\ discretized(added.status)
                         THEN Append(acc.np, target) ELSE acc.np])

\* expand_tree, outer loop: the cids of figure.points[point], in list order.
RECURSIVE expand_cids(_, _, _, _, _)
expand_cids(fig, kn, cids, k, acc) ==
    IF k > Len(cids) THEN acc
    ELSE expand_cids(fig, kn, cids, k + 1,
             expand_targets(cids[k], targets_of(fig.constraints[cids[k] + 1], kn), 1, acc))

expand_tree(fig, kn, point, st) ==
    expand_cids(fig, kn, fig.points[point + 1], 1, [st |-> st, np |-> <<>>])

Fig == [points |-> points, constraints |-> constraints]

(***************************************************************************)
(* order.rs: compute_forest, one action per step of its loops              *)
(***************************************************************************)
NoResult == [status |-> "none", order |-> <<>>]

\* order_bfs is called on the figure built so far.
start_order ==
    /\ pc = "build"
    /\ pc' = "root"
    /\ root' = 0
    /\ forest' = <<>>
    /\ UNCHANGED <<figVars, debug, orbiters, rootStatuses, order, known, statuses, i, result,
                   tgtVars, slvVars>>

\* for root in 0..figure.points.len(): expand the root, collect the orbiters.
root_step ==
    /\ pc = "root"
    /\ root < Len(points)
    /\ LET e == expand_tree(Fig, {root}, root, <<>>)
       IN  /\ orbiters' = DOMAIN e.st
           /\ rootStatuses' = [p \in DOMAIN e.st \cup {root} |->
                                 IF p = root THEN DefaultStatus ELSE e.st[p]]
    /\ order' = <<root>>
    /\ known' = {root}
    /\ pc' = "orbiter"
    /\ UNCHANGED <<figVars, debug, forest, root, statuses, i, result, tgtVars, slvVars>>

\* Skip if tree would be a subset of an existing tree.
skip_tree(o) == \E t \in DOMAIN forest : root \in forest[t].points /\ o \in forest[t].points

\* for orbiter in orbiters: statuses.keys() is iterated in the HashMap's
\* order, which is any order.
orbiter_skip ==
    /\ pc = "orbiter"
    /\ \E o \in orbiters :
        /\ skip_tree(o)
        /\ orbiters' = orbiters \ {o}
    /\ UNCHANGED <<figVars, pc, debug, forest, root, rootStatuses, order, known, statuses, i,
                   result, tgtVars, slvVars>>

orbiter_start ==
    /\ pc = "orbiter"
    /\ \E o \in orbiters :
        /\ ~skip_tree(o)
        /\ orbiters' = orbiters \ {o}
        /\ order' = <<root, o>>
    /\ known' = {root}
    /\ statuses' = rootStatuses
    /\ i' = 1
    /\ pc' = "tree"
    /\ UNCHANGED <<figVars, debug, forest, root, rootStatuses, result, tgtVars, slvVars>>

\* One iteration of `while i < order.len()`.
tree_step ==
    /\ pc = "tree"
    /\ i < Len(order)
    /\ LET point == order[i + 1]
           e == expand_tree(Fig, known \cup {point}, point, statuses)
       IN  /\ known' = known \cup {point}
           /\ order' = order \o e.np
           /\ statuses' = e.st
    /\ i' = i + 1
    /\ UNCHANGED <<figVars, pc, debug, forest, root, orbiters, rootStatuses, result,
                   tgtVars, slvVars>>

\* The emitted order with the orbiter put before the root.
tree_order_swapped(ord, st) ==
    [k \in 1..Len(ord) |->
        LET p == IF k = 1 /\ Len(ord) >= 2 THEN ord[2]
                 ELSE IF k = 2 THEN ord[1] ELSE ord[k]
        IN  [pid |-> p, ops |-> st[p].support \o st[p].disamb]]

\* In order of solving: (p, support ++ disamb).
tree_order(ord, st) ==
    [k \in 1..Len(ord) |-> [pid |-> ord[k], ops |-> st[ord[k]].support \o st[ord[k]].disamb]]

\* A retain that discards nothing.
retain_none(f, pts) == f

\* forest.retain(|(_, p)| !points.is_superset(p))
RECURSIVE retain(_, _)
retain(f, pts) ==
    IF f = <<>> THEN <<>>
    ELSE IF Head(f).points \subseteq pts THEN retain(Tail(f), pts)
    ELSE <<Head(f)>> \o retain(Tail(f), pts)

\* The loop has ended: emit the tree, discard subtrees, push.  Taking the
\* status of a PID that occurs twice in order panics (remove(..).unwrap()).
tree_finish ==
    /\ pc = "tree"
    /\ i >= Len(order)
    /\ IF \E a, b \in DOMAIN order : a # b /\ order[a] = order[b]
       THEN /\ pc' = "done"
            /\ result' = [status |-> "panic", order |-> <<>>]
            /\ UNCHANGED forest
       ELSE /\ pc' = "orbiter"
            /\ forest' = Append(retain(forest, known),
                                [order |-> tree_order(order, statuses), points |-> known])
            /\ UNCHANGED result
    /\ UNCHANGED <<figVars, debug, root, orbiters, rootStatuses, order, known, statuses, i,
                   tgtVars, slvVars>>

orbiters_done ==
    /\ pc = "orbiter"
    /\ orbiters = {}
    /\ root' = root + 1
    /\ pc' = "root"
    /\ UNCHANGED <<figVars, debug, forest, orbiters, rootStatuses, order, known, statuses, i,
                   result, tgtVars, slvVars>>

(***************************************************************************)
(* order.rs: order_bfs.  The two debug_assert_eq! are compiled in under    *)
(* the debug profile and compiled out under the release profile.           *)
(***************************************************************************)
order_bfs(dbg) ==
    /\ pc = "root"
    /\ root >= Len(points)
    /\ debug' = dbg
    /\ pc' = "done"
    /\ result' =
         IF dbg /\ Len(forest) # 1 THEN [status |-> "panic", order |-> <<>>]
         ELSE IF forest = <<>> THEN [status |-> "panic", order |-> <<>>]
         ELSE IF dbg /\ Len(forest[1].order) # Len(points)
         THEN [status |-> "panic", order |-> <<>>]
         ELSE [status |-> "ok", order |-> forest[1].order]
    /\ UNCHANGED <<figVars, forest, root, orbiters, rootStatuses, order, known, statuses, i,
                   tgtVars, slvVars>>

order_bfs_debug == order_bfs(TRUE)
order_bfs_release == order_bfs(FALSE)

OrdIdle ==
    /\ pc = "build" /\ debug = FALSE /\ forest = <<>> /\ root = 0 /\ orbiters = {}
    /\ rootStatuses = <<>> /\ order = <<>> /\ known = {} /\ statuses = <<>> /\ i = 0
    /\ result = NoResult
FigIdle == points = <<>> /\ constraints = <<>>
TgtIdle == tIn = <<>> /\ tOut = [done |-> FALSE, out |-> <<>>]
SlvIdle == sOrder = <<>> /\ positions = <<>> /\ stack = <<>> /\ sState = "idle"

\* A figure is built, then ordered.
Init == FigIdle /\ OrdIdle /\ TgtIdle /\ SlvIdle

Next ==
    \/ new_point
    \/ \E d \in Menu(Len(points)) : add_constraint(d)
    \/ start_order
    \/ root_step
    \/ orbiter_skip
    \/ orbiter_start
    \/ tree_step
    \/ tree_finish
    \/ orbiters_done
    \/ order_bfs_debug
    \/ order_bfs_release

Spec == Init /\ [][Next]_vars

\* A figure is built, then its PIDs are remapped.  map_ids ends in a panic on
\* every figure that has a point and changes nothing on the empty figure, so
\* no remapped figure is ever ordered.
NextMap ==
    \/ new_point
    \/ \E d \in Menu(Len(points)) : add_constraint(d)
    \/ \E mapping \in Bijections(Len(points)) : map_ids(mapping)

SpecMap == Init /\ [][NextMap]_vars

(***************************************************************************)
(* solve.rs: iter_brute as a machine over its recursion stack.  A frame is *)
(* one activation: its index i, its candidate list geo and the number k of *)
(* candidates the for loop has taken.  sState is "call" when iter_brute is *)
(* being entered at depth Len(stack), "loop" when the innermost activation *)
(* is at the head of its for loop.                                         *)
(***************************************************************************)
Entry(pid, ops) == [pid |-> pid, ops |-> ops]

\* geos.iter().map(|c| c.geo(positions)).reduce(meet)
RECURSIVE reduce_meet(_, _, _, _)
reduce_meet(ops, pos, k, acc) ==
    IF k > Len(ops) THEN acc
    ELSE reduce_meet(ops, pos, k + 1, meet(acc, geo(ops[k], pos)))

\* The candidate list of entry e under pos: [All] when it has no ops.
step_geo(e, pos) ==
    IF e.ops = <<>> THEN <<All>>
    ELSE reduce_meet(e.ops, pos, 2, geo(e.ops[1], pos))

\* solve_brute: positions = vec![Vector::ZERO; order.len()]
start_positions(ord) == [k \in 1..Len(ord) |-> ZERO]

\* iter_brute(order, positions, i) is entered with i = Len(stack).
iter_enter ==
    /\ sState = "call"
    /\ LET n == Len(stack)
       IN  IF n >= Len(sOrder)
           THEN /\ sState' = "Ok"
                /\ UNCHANGED stack
           ELSE LET cands == step_geo(sOrder[n + 1], positions)
                IN  IF cands = <<Panic>>
                    THEN /\ sState' = "panic"
                         /\ UNCHANGED stack
                    ELSE /\ sState' = "loop"
                         /\ stack' = Append(stack, [i |-> n, geo |-> cands, k |-> 0])
    /\ UNCHANGED <<sOrder, positions, figVars, ordVars, tgtVars>>

\* for g in geo: positions[*id] = choose(g), then the recursive call.
iter_choose ==
    /\ sState = "loop"
    /\ LET top == stack[Len(stack)]
       IN  /\ top.k < Len(top.geo)
           /\ positions' = [positions EXCEPT ![sOrder[top.i + 1].pid + 1] = choose(top.geo[top.k + 1])]
           /\ stack' = [stack EXCEPT ![Len(stack)].k = top.k + 1]
    /\ sState' = "call"
    /\ UNCHANGED <<sOrder, figVars, ordVars, tgtVars>>

\* The for loop is exhausted: return Err(()) to the caller's for loop, or
\* to solve_brute.
iter_err_no_backtrack ==
    /\ sState = "loop"
    /\ stack[Len(stack)].k >= Len(stack[Len(stack)].geo)
    /\ stack' = <<>>
    /\ sState' = "Err"
    /\ UNCHANGED <<sOrder, positions, figVars, ordVars, tgtVars>>

iter_err ==
    /\ sState = "loop"
    /\ stack[Len(stack)].k >= Len(stack[Len(stack)].geo)
    /\ stack' = SubSeq(stack, 1, Len(stack) - 1)
    /\ sState' = IF Len(stack) = 1 THEN "Err" ELSE "loop"
    /\ UNCHANGED <<sOrder, positions, figVars, ordVars, tgtVars>>

(***************************************************************************)
(* The orders handed to solve_brute: orders of the shape order_bfs emits,  *)
(* with root a = 0 at the origin and orbiter b = 1 at distance 6, chosen   *)
(* so that every locus stays on the lattice (3-4-5 and 6-8-10 triangles).  *)
(***************************************************************************)
RootOrbiter == <<Entry(0, <<>>), Entry(1, <<TDistance(6, 0)>>)>>
\* Radii about a and b: two points, tangent, disjoint, contained.
Radii == {<<5, 5>>, <<10, 8>>, <<8, 10>>, <<3, 3>>, <<2, 2>>, <<2, 10>>}
TwoCircles(pid, rr) == Entry(pid, <<TDistance(rr[1], 0), TDistance(rr[2], 1)>>)
WithOp(e, op) == [e EXCEPT !.ops = Append(@, op)]

\* a, b, c: a triangle.
TriangleOrders == {RootOrbiter \o <<TwoCircles(2, rr)>> : rr \in Radii}
\* a, b, c, d with Chirality on (a,b,c)(a,b,d): d turns as c does (Pro) or
\* against it (Anti).
ChiralityOrders ==
    {RootOrbiter \o <<TwoCircles(2, rc), WithOp(TwoCircles(3, rd), TChirality(pol, 0, 1, 2, 0, 1))>> :
        rc \in {<<5, 5>>, <<10, 8>>}, rd \in {<<5, 5>>, <<8, 10>>, <<3, 3>>}, pol \in Polarity}
\* a, b, c, d, e with e at distances from c and d.
ChainOrders ==
    {RootOrbiter \o <<TwoCircles(2, <<5, 5>>), TwoCircles(3, <<5, 5>>),
                      Entry(4, <<TDistance(rr[1], 2), TDistance(rr[2], 3)>>)>> :
        rr \in {<<10, 6>>, <<6, 10>>, <<10, 2>>, <<3, 2>>}}
    \cup {RootOrbiter \o <<TwoCircles(2, <<5, 5>>),
                           WithOp(TwoCircles(3, <<5, 5>>), TDistance(r, 2))>> : r \in {8, 5}}
\* a, b, c with c at distance 8 from b on the line through b that is
\* parallel (m = 0) or perpendicular (m = 1) to ab, on the ray from b at a
\* right angle to ba, or at the vertex of a right angle over ab.
AngleOrders ==
    {RootOrbiter \o <<Entry(2, <<TDistance(8, 1), TOrient(m, 0, 1, 1)>>)>> : m \in {0, 1}}
    \cup {RootOrbiter \o <<Entry(2, <<TDistance(10, 0), TOrient(1, 1, 0, 1)>>)>>,
          RootOrbiter \o <<Entry(2, <<TVertex(1, 0, 1), TDistance(6, 0)>>)>>}
SolveInputs == TriangleOrders \cup ChiralityOrders \cup ChainOrders \cup AngleOrders

InitSolve ==
    /\ FigIdle /\ OrdIdle /\ TgtIdle
    /\ sOrder \in SolveInputs
    /\ positions = start_positions(sOrder)
    /\ stack = <<>>
    /\ sState = "call"
NextSolve == iter_enter \/ iter_choose \/ iter_err
SpecSolve == InitSolve /\ [][NextSolve]_vars

(***************************************************************************)
(* Properties of the figure and of the ordering, checked under Spec.       *)
(***************************************************************************)
AllPids == 0..(Len(points) - 1)
OrderPids(o) == [k \in 1..Len(o) |-> o[k].pid]
Occurrences(s, x) == Cardinality({k \in DOMAIN s : s[k] = x})

\* C1: whenever order_bfs returns an order for a figure of N points, the
\* order contains every PID 0..N-1 exactly once.
C1_OrderVisitsEveryPidOnce ==
    result.status = "ok" =>
        \A p \in AllPids : Occurrences(OrderPids(result.order), p) = 1

\* C2: whenever order_bfs returns an order, its first entry has no ops and
\* its second entry has exactly one op, which is discretizing.
C2_RootBareOrbiterOneOp ==
    result.status = "ok" =>
        /\ Len(result.order) >= 2
        /\ result.order[1].ops = <<>>
        /\ Len(result.order[2].ops) = 1
        /\ discretizing(result.order[2].ops[1])

\* C3: order_bfs returns an order only when the forest is exactly one tree
\* that contains all points of the figure; otherwise it fails.
C3_OrderOnlyFromOneFullTree ==
    result.status = "ok" =>
        /\ Len(forest) = 1
        /\ forest[1].points = AllPids
        /\ Range(OrderPids(result.order)) = AllPids

\* C6: the adjacency list of every point holds exactly the CIDs of the
\* constraints whose tuple mentions the point, each CID at most once.
C6_AdjacencyIsTheSetOfMentions ==
    \A p \in AllPids :
        /\ Range(points[p + 1]) =
               {c \in 0..(Len(constraints) - 1) : p \in Range(constraints[c + 1].pts)}
        /\ \A c \in Range(points[p + 1]) : Occurrences(points[p + 1], c) = 1

\* The equilateral triangle of the spec: Distance(1,a,b), Distance(1,b,c),
\* Distance(1,c,a) on a = 0, b = 1, c = 2.
Triangle ==
    <<Decl(Constraint("Distance", 1, <<>>), <<0, 1>>),
      Decl(Constraint("Distance", 1, <<>>), <<1, 2>>),
      Decl(Constraint("Distance", 1, <<>>), <<2, 0>>)>>

\* C10: for the equilateral triangle the emitted order has a as root, b as
\* orbiter and c third, on every run.
C10_TriangleOrderIsABC ==
    (result.status = "ok" /\ Len(points) = 3 /\ constraints = Triangle) =>
        OrderPids(result.order) = <<0, 1, 2>>

\* The while loop of compute_forest as a function: the point set of the tree
\* grown from the queue ord with the entries before k already expanded.
RECURSIVE grow(_, _, _, _, _)
grow(fig, ord, kn, st, k) ==
    IF k >= Len(ord) THEN kn
    ELSE LET point == ord[k + 1]
             e == expand_tree(fig, kn \cup {point}, point, st)
         IN  grow(fig, ord \o e.np, kn \cup {point}, e.st, k + 1)

\* The tree the current root would grow with orbiter o.
tree_points(o) == grow(Fig, <<root, o>>, {root}, rootStatuses, 1)

\* The points of the queue from the third entry on: those that were appended
\* by the tree loop on receiving their second discretizing op.
Enqueued(ord) == {ord[k] : k \in 3..Len(ord)}

\* C11: in the tree loop, a point that has been appended to the queue holds
\* exactly two discretizing ops and no later expansion attaches another op
\* to it.
C11_EnqueuedPointGetsNoFurtherOp ==
    [][(pc = "tree" /\ pc' = "tree") =>
          \A p \in Enqueued(order') :
              /\ Len(statuses'[p].support) = 2
              /\ p \in Enqueued(order) => statuses'[p] = statuses[p]]_vars

\* C12: whenever an accepted tree T contains the root and an orbiter, the
\* tree grown from that (root, orbiter) pair contains only points of T.
C12_SkippedTreeIsSubset ==
    pc = "orbiter" =>
        \A o \in orbiters : \A t \in DOMAIN forest :
            (root \in forest[t].points /\ o \in forest[t].points) =>
                tree_points(o) \subseteq forest[t].points

\* C13: within one tree every status holds exactly one op per constraint
\* that contributed to it, so no CID contributes two ops to a target.
C13_OneOpPerCidPerTarget ==
    /\ \A p \in DOMAIN statuses :
          Len(statuses[p].support) + Len(statuses[p].disamb) = Cardinality(statuses[p].cids)
    /\ \A p \in DOMAIN rootStatuses :
          Len(rootStatuses[p].support) + Len(rootStatuses[p].disamb)
              = Cardinality(rootStatuses[p].cids)

\* The targets a constraint of the point about to be expanded emits for
\* points that already hold an op of that constraint.
Reemitted ==
    IF pc = "tree" /\ i < Len(order)
    THEN LET point == order[i + 1]
         IN  UNION {{<<cid, tg.target>> :
                        tg \in Range(targets_of(constraints[cid + 1], known \cup {point}))} :
                    cid \in Range(points[point + 1])}
    ELSE {}

\* Witness of C13: the next expansion evaluates a constraint that emits a
\* target which already holds that constraint's op.
C13_Witness ==
    \E ct \in Reemitted :
        ct[2] \in DOMAIN statuses /\ ct[1] \in statuses[ct[2]].cids

\* C17: in every emitted order each op of the entry at position k mentions
\* only PIDs of entries at positions before k.
C17_OpsReferenceEarlierEntries ==
    result.status = "ok" =>
        \A k \in DOMAIN result.order : \A op \in Range(result.order[k].ops) :
            \A q \in Range(op.ps) : \E j \in 1..(k - 1) : result.order[j].pid = q

\* Witness of C17: an emitted order whose last entry, at position three or
\* later, holds an op that mentions two earlier entries.
C17_Witness ==
    /\ result.status = "ok"
    /\ Len(result.order) >= 3
    /\ \E op \in Range(result.order[Len(result.order)].ops) : Cardinality(Range(op.ps)) >= 2

\* C18: no accepted tree's point set is contained in another accepted
\* tree's point set.
C18_ForestIsAntichain ==
    \A s, t \in DOMAIN forest : s # t => ~(forest[s].points \subseteq forest[t].points)

\* Witness of C18: the tree loop has ended with a tree that contains an
\* accepted tree, which retain discards, next to an accepted tree that it
\* does not contain, which retain keeps.
C18_Witness ==
    /\ pc = "tree"
    /\ i >= Len(order)
    /\ \E t \in DOMAIN forest : forest[t].points \subseteq known
    /\ \E t \in DOMAIN forest : ~(forest[t].points \subseteq known)

\* C19: map_ids called with a bijection on a figure of at least one point
\* completes normally, keeps the number of points, and leaves every point's
\* adjacency equal to the set of constraints whose remapped tuple mentions it.
C19_MapIdsKeepsFigure ==
    [][(pc = "build" /\ pc' = "mapped" /\ Len(points) >= 1) =>
          /\ result'.status = "mapped"
          /\ Len(points') = Len(points)
          /\ \A p \in 0..(Len(points') - 1) :
                Range(points'[p + 1]) =
                    {c \in 0..(Len(constraints') - 1) : p \in Range(constraints'[c + 1].pts)}]_vars

\* C20, safety part: the queue of the tree loop never holds a PID twice and
\* never holds more entries than the figure has points.
QueueBounded ==
    pc = "tree" =>
        /\ \A a, b \in DOMAIN order : a # b => order[a] # order[b]
        /\ Len(order) <= Len(points)
        /\ i <= Len(order)

\* The figure that new_point, called n times, and add_constraint, called
\* with the declarations ds in turn, build.
RECURSIVE built(_, _, _)
built(n, ds, k) ==
    IF k = 0 THEN [points |-> [p \in 1..n |-> <<>>], constraints |-> <<>>]
    ELSE LET f == built(n, ds, k - 1)
         IN  [points |-> push_cid(f.points, ds[k].pts, 1, Len(f.constraints)),
              constraints |-> Append(f.constraints, ds[k])]

\* The declarations of the menu that feed the queue with each kind of
\* discretizing op: circles (Distance), rays and vertex circles (Angle) and
\* lines (Perpendicular, Collinear on three points).
LiveMenu(n) ==
    {d \in Menu(n) : d.c.kind \in {"Distance", "Angle", "Perpendicular", "Collinear"}
                     /\ Len(d.pts) <= 4}

LiveFigures == {built(LivePoints, ds, Len(ds)) : ds \in SeqsUpTo(LiveMenu(LivePoints), LiveCons)}

\* The ordering of a built figure under fair scheduling of the tree loop:
\* the loop's body and its exit are sequential code, which runs whenever it
\* can.
InitLive ==
    /\ \E f \in LiveFigures : points = f.points /\ constraints = f.constraints
    /\ OrdIdle /\ TgtIdle /\ SlvIdle

NextLive ==
    \/ start_order
    \/ root_step
    \/ orbiter_skip
    \/ orbiter_start
    \/ tree_step
    \/ tree_finish
    \/ orbiters_done
    \/ order_bfs_debug
    \/ order_bfs_release

\* Weak fairness of tree_step, with its enabling condition written out: the
\* body of the loop can run exactly when pc = "tree" and i < order.len().
FairTreeStep == ([]<>~(pc = "tree" /\ i < Len(order))) \/ ([]<><<tree_step>>_vars)

SpecLive == InitLive /\ [][NextLive]_vars /\ FairTreeStep /\ WF_vars(tree_finish)

\* C20: the tree loop terminates for every (root, orbiter) pair: the queue
\* holds each PID at most once, never outgrows the figure, and drains.
C20_TreeLoopTerminates ==
    /\ []QueueBounded
    /\ (pc = "tree") ~> (pc # "tree")

\* Witness of C20: the loop has drained a queue that holds every point of a
\* figure of at least three points.
C20_Witness ==
    /\ pc = "tree"
    /\ i = Len(order)
    /\ Len(order) = Len(points)
    /\ Len(points) >= 3

(***************************************************************************)
(* Targeting as a function of its inputs: a declaration and a set of known *)
(* points are drawn, and targets (order.rs:13) is applied to them.         *)
(***************************************************************************)
TgtConstraints ==
    {Constraint("Distance", 1, <<>>), Constraint("Angle", 1, <<>>),
     Constraint("Parallel", 0, <<>>), Constraint("Perpendicular", 0, <<>>),
     Constraint("Collinear", 0, <<>>)}
    \cup {Constraint("Chirality", 0, pols) : pols \in SeqsUpTo(Polarity, MaxPol)}

TgtInputs ==
    [decl : [c : TgtConstraints, pts : SeqsUpTo(0..(NumPids - 1), MaxTuple)],
     known : SUBSET (0..(NumPids - 1))]

\* Chirality declarations of MaxTriples triples, one polarity per triple.
ChirInputs ==
    [decl : [c : {Constraint("Chirality", 0, pols) : pols \in [1..MaxTriples -> Polarity]},
             pts : [1..(3 * MaxTriples) -> 0..(ChirPids - 1)]],
     known : SUBSET (0..(ChirPids - 1))]

targets_call ==
    /\ ~tOut.done
    /\ tOut' = [done |-> TRUE, out |-> targets_of(tIn.decl, tIn.known)]
    /\ UNCHANGED <<tIn, figVars, ordVars, slvVars>>

InitTarget == FigIdle /\ OrdIdle /\ SlvIdle /\ tIn \in TgtInputs /\ tOut = [done |-> FALSE, out |-> <<>>]
NextTarget == targets_call
SpecTarget == InitTarget /\ [][NextTarget]_vars

InitChir == FigIdle /\ OrdIdle /\ SlvIdle /\ tIn \in ChirInputs /\ tOut = [done |-> FALSE, out |-> <<>>]
SpecChir == InitChir /\ [][NextTarget]_vars

\* The tuple lengths the variants are declared with: 2 for Distance, 3 for
\* Angle, pairs for Parallel and Perpendicular, at least 2 for Collinear,
\* one triple per polarity for Chirality.
WellFormed(d) ==
    CASE d.c.kind = "Distance"      -> Len(d.pts) = 2
      [] d.c.kind = "Angle"         -> Len(d.pts) = 3
      [] d.c.kind = "Parallel"      -> Len(d.pts) % 2 = 0
      [] d.c.kind = "Perpendicular" -> Len(d.pts) % 2 = 0
      [] d.c.kind = "Collinear"     -> Len(d.pts) >= 2
      [] d.c.kind = "Chirality"     -> Len(d.pts) = 3 * Len(d.c.pols)

\* C7: a constraint whose tuple has the wrong length for its variant, too
\* short or too long, yields no targets under every knowledge mask.
C7_WrongArityYieldsNoTargets ==
    (tOut.done /\ ~WellFormed(tIn.decl)) => tOut.out = <<>>

\* C8: every returned target is unknown under the mask and every PID stored
\* in the returned op is known under the mask.
C8_TargetUnknownOpPidsKnown ==
    tOut.done =>
        \A k \in DOMAIN tOut.out :
            /\ tOut.out[k].target \notin tIn.known
            /\ Range(tOut.out[k].op.ps) \subseteq tIn.known

\* Witness of C8: a declaration that targets two points at once.
C8_Witness ==
    /\ tOut.done
    /\ Len(tOut.out) >= 2
    /\ tOut.out[1].target # tOut.out[2].target

\* Every line of the declaration is given by two distinct points: each pair
\* of a Parallel or Perpendicular, the points of a Collinear, and the vertex
\* of an Angle against both of its end points.
DistinctLines(d) ==
    CASE d.c.kind \in {"Parallel", "Perpendicular"} ->
            \A n \in 0..((Len(d.pts) \div 2) - 1) : d.pts[2 * n + 1] # d.pts[2 * n + 2]
      [] d.c.kind = "Collinear" ->
            \A a, b \in DOMAIN d.pts : a # b => d.pts[a] # d.pts[b]
      [] d.c.kind = "Angle" ->
            Len(d.pts) >= 3 => d.pts[2] \notin {d.pts[1], d.pts[3]}
      [] OTHER -> FALSE

\* Positions the ops are evaluated at: distinct points of the x axis, so
\* that every base direction is a lattice unit vector.
TgtPositions == [k \in 1..NumPids |-> Vec(2 * k, 0)]

\* C16: for lines given by two distinct points, every op of a Parallel,
\* Perpendicular or Collinear is an Orient that evaluates to lines with lower
\* bound NEG_INFINITY, and the Orient ops of an Angle evaluate to rays with
\* lower bound 0.
C16_OnlyAngleEndPointsAreRays ==
    (tOut.done /\ DistinctLines(tIn.decl)) =>
        \A k \in DOMAIN tOut.out :
            LET op == tOut.out[k].op
            IN  /\ tIn.decl.c.kind # "Angle" => op.t = "Orient"
                /\ op.t = "Orient" =>
                      \A g \in Range(geo(op, TgtPositions)) :
                          /\ g.g = "Linear"
                          /\ g.l = IF tIn.decl.c.kind = "Angle" THEN 0 ELSE NEG_INFINITY

\* Witness of C16: a Parallel or Perpendicular that emits one target on the
\* first point of the reference line and one on another known point, so
\* that both forms of the Orient op occur.
C16_Witness ==
    /\ tOut.done
    /\ tIn.decl.c.kind \in {"Parallel", "Perpendicular"}
    /\ DistinctLines(tIn.decl)
    /\ \E a, b \in DOMAIN tOut.out : tOut.out[a].op.ps[1] # tOut.out[b].op.ps[1]

\* The triples of a chirality declaration, 0-based, that the scan visits.
Triples(d) == 0..(Min(Len(d.pts) \div 3, Len(d.c.pols)) - 1)
TripleKnown(d, kn, n) == {k \in 1..3 : d.pts[3 * n + k] \in kn}
FullyKnown(d, kn) == {n \in Triples(d) : TripleKnown(d, kn, n) = {1, 2, 3}}
Earliest(S) == CHOOSE n \in S : \A o \in S : n <= o
\* The triples with exactly one unknown point, in tuple order.
RECURSIVE TargetTriples(_, _, _)
TargetTriples(d, kn, n) ==
    IF n \notin Triples(d) THEN <<>>
    ELSE IF Cardinality(TripleKnown(d, kn, n)) = 2
    THEN <<n>> \o TargetTriples(d, kn, n + 1)
    ELSE TargetTriples(d, kn, n + 1)

\* C9: every emitted Chirality op carries the three PIDs of the earliest
\* fully-known triple, and its polarity is Pro iff the target triple's
\* polarity equals that earliest triple's polarity.
C9_ChiralityUsesFirstKnownTriple ==
    (tOut.done /\ tIn.decl.c.kind = "Chirality" /\ FullyKnown(tIn.decl, tIn.known) # {}) =>
        LET d == tIn.decl
            ref == Earliest(FullyKnown(d, tIn.known))
            tt == TargetTriples(d, tIn.known, 0)
        IN  /\ Len(tOut.out) = Len(tt)
            /\ \A k \in DOMAIN tOut.out :
                 LET op == tOut.out[k].op
                 IN  /\ op.t = "Chirality"
                     /\ SubSeq(op.ps, 1, 3) = SubSeq(d.pts, 3 * ref + 1, 3 * ref + 3)
                     /\ (op.pol = "Pro") <=> (d.c.pols[tt[k] + 1] = d.c.pols[ref + 1])

(***************************************************************************)
(* math/geo.rs as functions of their inputs: meet on two lists of loci and *)
(* dist on a point and a halfplane.                                        *)
(***************************************************************************)
\* Loci of every variant on the triangle (0,0), (6,0), (3,4) and its mirror
\* image: every distance and every intersection among them is an integer.
Loci ==
    {Zero(Vec(0, 0)), Zero(Vec(6, 0)), Zero(Vec(3, 4)), Zero(Vec(3, -4))}
    \cup {Linear(Vec(0, 0), Vec(1, 0), NEG_INFINITY),
          Linear(Vec(3, 0), Vec(0, 1), NEG_INFINITY),
          Linear(Vec(3, 0), Vec(0, 1), 0)}
    \cup {Circle(Vec(0, 0), 5), Circle(Vec(6, 0), 5)}
    \cup {All, Half(Vec(3, 0), Vec(0, 1)), Half(Vec(3, 0), Vec(0, -1))}

\* Two circles about one centre give d = 0 and a division 0/0.
Concentric(A, B) ==
    \E a \in Range(A), b \in Range(B) : a.g = "Circle" /\ b.g = "Circle" /\ a.c = b.c

MeetInputs ==
    {in \in [f : {"meet"}, A : SeqsUpTo(Loci, MaxLoci), B : SeqsUpTo(Loci, MaxLoci)] :
        ~Concentric(in.A, in.B)}

DistInputs ==
    [f : {"dist"},
     p : {Vec(x, y) : x \in -MaxCoord..MaxCoord, y \in -MaxCoord..MaxCoord},
     g : {Half(o, n) : o \in {Vec(0, 0), Vec(1, 0)},
                       n \in {Vec(1, 0), Vec(0, 1), Vec(-1, 0), Vec(0, -1)}}]

meet_call ==
    /\ ~tOut.done
    /\ tIn.f = "meet"
    /\ tOut' = [done |-> TRUE, out |-> meet(tIn.A, tIn.B)]
    /\ UNCHANGED <<tIn, figVars, ordVars, slvVars>>

dist_call ==
    /\ ~tOut.done
    /\ tIn.f = "dist"
    /\ tOut' = [done |-> TRUE, out |-> dist(tIn.p, tIn.g)]
    /\ UNCHANGED <<tIn, figVars, ordVars, slvVars>>

InitGeo ==
    /\ FigIdle /\ OrdIdle /\ SlvIdle
    /\ tIn \in MeetInputs \cup DistInputs
    /\ tOut = [done |-> FALSE, out |-> <<>>]
NextGeo == meet_call \/ dist_call
SpecGeo == InitGeo /\ [][NextGeo]_vars

SameBag(s, t) == \A x \in Range(s) \cup Range(t) : Occurrences(s, x) = Occurrences(t, x)

\* C14: meet(A, B) and meet(B, A) return the same multiset of loci, and one
\* returns a result whenever the other does.
C14_MeetCommutes ==
    (tOut.done /\ tIn.f = "meet") => SameBag(tOut.out, meet(tIn.B, tIn.A))

\* C15: dist(p, Half{o, n}) is zero where (p - o) . n >= 0, positive where
\* (p - o) . n < 0, and equals max(0, -(p - o) . n).
C15_HalfDistZeroInside ==
    (tOut.done /\ tIn.f = "dist") =>
        LET side == dot(VSub(tIn.p, tIn.g.o), tIn.g.n)
        IN  /\ side >= 0 => tOut.out = 0
            /\ side < 0 => tOut.out > 0
            /\ tOut.out = Max(0, -side)

(***************************************************************************)
(* Properties of the solver, checked under SpecSolve.                      *)
(***************************************************************************)
\* C4: in every assignment solve_brute returns, each point p with a
\* chirality op Half{o,n} attached satisfies (p - o) . n >= 0.
C4_ReturnedPointsSatisfyHalfplanes ==
    sState = "Ok" =>
        \A e \in Range(sOrder) : \A op \in Range(e.ops) :
            op.t = "Chirality" =>
                LET h == geo(op, positions)[1]
                IN  dot(VSub(positions[e.pid + 1], h.o), h.n) >= 0

\* The sequences of candidate choices, one index per entry from entry n on,
\* that reach the end of the order from positions pos.
RECURSIVE Branches(_, _, _)
Branches(ord, pos, n) ==
    IF n >= Len(ord) THEN {<<>>}
    ELSE LET cands == step_geo(ord[n + 1], pos)
         IN  UNION {{<<k>> \o rest :
                        rest \in Branches(ord, [pos EXCEPT ![ord[n + 1].pid + 1] = choose(cands[k])],
                                          n + 1)} :
                    k \in 1..Len(cands)}

\* The positions a sequence of choices assigns.
RECURSIVE PosOf(_, _, _, _)
PosOf(ord, pos, cs, n) ==
    IF n >= Len(ord) THEN pos
    ELSE PosOf(ord,
               [pos EXCEPT ![ord[n + 1].pid + 1] = choose(step_geo(ord[n + 1], pos)[cs[n + 1]])],
               cs, n + 1)

\* Depth-first candidate order is the lexicographic order of the choices.
LexLeq(a, b) ==
    \/ a = b
    \/ \E k \in DOMAIN a : a[k] < b[k] /\ \A j \in 1..(k - 1) : a[j] = b[j]
First(S) == CHOOSE a \in S : \A b \in S : LexLeq(a, b)
AllBranches == Branches(sOrder, start_positions(sOrder), 0)

\* C5: solve_brute fails only if no sequence of candidate choices reaches
\* the end of the order, and otherwise returns the positions of the first
\* such sequence in depth-first candidate order.
C5_FailsOnlyWhenExhausted ==
    /\ sState = "Err" => AllBranches = {}
    /\ sState = "Ok" =>
          /\ AllBranches # {}
          /\ positions = PosOf(sOrder, start_positions(sOrder), First(AllBranches), 0)

\* Witness of C5: a solve that succeeded after an empty intersection sent it
\* back to the next candidate of the entry before.
C5_Witness ==
    /\ sState = "Ok"
    /\ \E k \in DOMAIN First(AllBranches) : First(AllBranches)[k] > 1

====
